---- MODULE Spec2Model ----
(***************************************************************************)
(* Model of final.py: the detect / analyze / alert loop of the security    *)
(* system.  One sequential process; pc is its position in the script.      *)
(* Serial packets are sequences of byte values, texts are sequences of     *)
(* one-character strings.                                                  *)
(***************************************************************************)
EXTENDS Integers, Sequences, FiniteSets, TLC

\* ------------------------------------------------------------------ bounds
\* characters of a serial line after its head
MaxTailLen == 2
\* pieces a classifier response is built from
MaxRespPieces == 2
\* lines the sensor has sent that the script has not read yet
MaxWaiting == 1

\* ------------------------------------------------------- text primitives
\* "The value of pin is:" (final.py line 263), as text
Marker == <<"T","h","e"," ","v","a","l","u","e"," ","o","f"," ","p","i","n"," ","i","s",":">>

\* the same phrase as the bytes an Arduino sends for it
MarkerBytes == <<84,104,101,32,118,97,108,117,101,32,111,102,32,112,105,110,32,105,115,58>>

\* the characters of the 7-bit bytes that occur on the wire in this model
Chr(b) ==
    CASE b = 10 -> "\n" [] b = 13 -> "\r" [] b = 32 -> " "
      [] b = 48 -> "0"  [] b = 49 -> "1"  [] b = 58 -> ":"
      [] b = 84 -> "T"  [] b = 97 -> "a"  [] b = 101 -> "e" [] b = 102 -> "f"
      [] b = 104 -> "h" [] b = 105 -> "i" [] b = 108 -> "l" [] b = 110 -> "n"
      [] b = 111 -> "o" [] b = 112 -> "p" [] b = 115 -> "s" [] b = 117 -> "u"
      [] b = 118 -> "v"
      [] OTHER -> "?"

\* bytes 0xF8..0xFF start no UTF-8 sequence: bytes.decode('utf-8') raises on them
InvalidByte(b) == b >= 248

\* packet.decode('utf-8') raises UnicodeDecodeError
DecodeFails(packet) == \E i \in 1..Len(packet) : InvalidByte(packet[i])

\* packet.decode('utf-8') when it does not raise (7-bit bytes only in this model)
Decode(packet) == [i \in 1..Len(packet) |-> Chr(packet[i])]

\* the characters str.strip() removes
IsSpace(c) == c \in {" ", "\n", "\r", "\t"}

\* str.strip() (the text is evaluated once, then trimmed)
Strip(s) ==
    LET Trimmed(v) ==
            LET keep == {i \in 1..Len(v) : ~IsSpace(v[i])}
            IN  IF keep = {} THEN <<>>
                ELSE LET lo == CHOOSE i \in keep : \A j \in keep : i <= j
                         hi == CHOOSE i \in keep : \A j \in keep : j <= i
                     IN  SubSeq(v, lo, hi)
    IN  CHOOSE r \in {Trimmed(v) : v \in {s}} : TRUE

\* m in s
Contains(s, m) ==
    \E i \in 0..(Len(s) - Len(m)) : SubSeq(s, i + 1, i + Len(m)) = m

\* s.split(":")[-1]
LastField(s) ==
    LET colons == {i \in 1..Len(s) : s[i] = ":"}
    IN  IF colons = {} THEN s
        ELSE LET last == CHOOSE i \in colons : \A j \in colons : j <= i
             IN  SubSeq(s, last + 1, Len(s))

\* str.upper() on the letters that occur in responses
UpperChar(c) ==
    CASE c = "y" -> "Y" [] c = "e" -> "E" [] c = "s" -> "S"
      [] c = "n" -> "N" [] c = "o" -> "O"
      [] OTHER -> c

Upper(s) == [i \in 1..Len(s) |-> UpperChar(s[i])]

\* ------------------------------------------------------------ input sets
RECURSIVE Concats(_, _)
\* all concatenations of at most n members of pieces
Concats(pieces, n) ==
    IF n = 0 THEN {<<>>}
    ELSE LET shorter == Concats(pieces, n - 1)
         IN  shorter \cup {s \o p : s \in shorter, p \in pieces}

\* how a line starts: with nothing, with the marker, with a noise byte and the marker
LineHeads == {<<>>, MarkerBytes, <<255>> \o MarkerBytes}

\* the bytes of "0", "1", " " and ":"
TailBytes == {<<48>>, <<49>>, <<32>>, <<58>>}

\* what readline() can return: head, tail and the "\r\n" of Serial.println
Packets == {h \o t \o <<13, 10>> : h \in LineHeads, t \in Concats(TailBytes, MaxTailLen)}

RespPieces == {<<"Y","E","S">>, <<"y","e","s">>, <<"N","O">>, <<" ">>, <<".">>}

\* what response.text can be when it is a string
Responses == Concats(RespPieces, MaxRespPieces)


\* ------------------------------------------------- the line as it was sent
\* the bytes bytes.strip() removes
IsSpaceByte(b) == b \in {9, 10, 13, 32}

\* the line as the sensor sent it holds the marker phrase, and what follows its
\* last colon is, apart from blanks, the one character "0"
LineIsTrigger(line) ==
    LET colons == {i \in 1..Len(line) : line[i] = 58}
        last == CHOOSE i \in colons : \A j \in colons : j <= i
        value == {i \in (last + 1)..Len(line) : ~IsSpaceByte(line[i])}
    IN  /\ \E i \in 1..(Len(line) - Len(MarkerBytes) + 1) :
                \A k \in 1..Len(MarkerBytes) : line[i + k - 1] = MarkerBytes[k]
        /\ Cardinality(value) = 1
        /\ \A i \in value : line[i] = 48

\* ------------------------------------------------- decisions of the code
\* the script going on to step 2 although serialInst.open() raised
AfterOpenSerial_GoesOn(opened) == "init_gemini"

\* lines 227-233: the port opens, or the script prints CRITICAL and calls exit()
AfterOpenSerial(opened) == IF opened THEN "init_gemini" ELSE "exited"

\* lines 236-247: the key is read and the client built, or the script calls exit()
AfterInitGemini(keyPresent, clientBuilt) ==
    IF keyPresent /\ clientBuilt THEN "poll" ELSE "exited"

\* lines 263-267: the test that starts the pipeline, on the decoded, stripped line
IsTrigger(serial_value) ==
    /\ Contains(serial_value, Marker)
    /\ Strip(LastField(serial_value)) = <<"0">>

\* capture_image_from_ipcam without the test of line 86
CaptureResult_IgnoresRet(opened, ret) ==
    IF ~opened THEN "None" ELSE "snapshot.jpg"

\* lines 79-93: what capture_image_from_ipcam returns
CaptureResult(opened, ret) ==
    IF ~opened THEN "None"
    ELSE IF ~ret THEN "None"
    ELSE "snapshot.jpg"

\* the else branch of line 289 leaving the loop
AfterCapture_BreaksOnFailure(path) == IF path # "None" THEN "analyze" ELSE "closing"

\* line 90 building a name of its own for each frame
ImagePath_PerCycle == "snapshot_1.jpg"

\* line 90: the path the frame is written to
ImagePath == "snapshot.jpg"

\* line 284: the filename the main loop passes to generate_warning_audio
AudioFile == "warning_audio.mp3"

\* cap.release() placed after the test of line 86
Released_AfterCheck(opened, ret) == opened /\ ret

\* lines 79-84: cap.release() is called; the return of line 81 comes before it,
\* the test of line 86 after it
Released(opened, ret) == opened

\* line 273 trying the capture again when it got no image
AfterCapture_Retries(path) == IF path # "None" THEN "analyze" ELSE "capture"

\* line 273: if image_file
AfterCapture(path) == IF path # "None" THEN "analyze" ELSE "sleep"

\* line 133 written as result_text.startswith("YES")
IsYes_StartsWith(text) ==
    LET t == Upper(Strip(text))
    IN  Len(t) >= 3 /\ SubSeq(t, 1, 3) = <<"Y","E","S">>

\* lines 131-133: result_text == "YES" after strip and upper
IsYes(text) == Upper(Strip(text)) = <<"Y","E","S">>

\* analyze_with_gemini whose except clause returns True
AnalyzeResult_FailOpen(outcome, text) ==
    CASE outcome = "not_found" -> FALSE
      [] outcome \in {"load_error", "remote_error", "no_text"} -> TRUE
      [] outcome = "text" -> IsYes(text)

\* lines 110-138: what analyze_with_gemini returns
AnalyzeResult(outcome, text) ==
    CASE outcome = "not_found" -> FALSE
      [] outcome \in {"load_error", "remote_error", "no_text"} -> FALSE
      [] outcome = "text" -> IsYes(text)

\* line 278: if is_human
AfterAnalyze(human) == IF human THEN "synth" ELSE "sleep"

\* generate_warning_audio returning the path from its except clause too
SynthResult_PathOnError(client, outcome) ==
    IF ~client THEN "None" ELSE "warning_audio.mp3"

\* lines 164-189: what generate_warning_audio returns
SynthResult(client, outcome) ==
    IF ~client THEN "None"
    ELSE IF outcome = "ok" THEN "warning_audio.mp3" ELSE "None"

\* lines 164-181: open(filename, "wb") is reached, which truncates the file
OpensAudioFile(client, outcome) == client /\ outcome \in {"stream_error", "ok"}

\* lines 178-181: what warning_audio.mp3 holds after the call
AudioAfterSynth(client, outcome, before) ==
    IF ~OpensAudioFile(client, outcome) THEN before
    ELSE IF outcome = "ok" THEN "fresh" ELSE "partial"

\* generate_warning_audio without the test of line 164
SynthRequests_Unguarded(client) == 1

\* lines 164-175: the calls of text_to_speech.convert one call of the function makes
SynthRequests(client) == IF client THEN 1 ELSE 0

\* line 198 written as: if playsound
Playbacks_IgnoresPath(path, player) == IF player THEN 1 ELSE 0

\* line 198: the calls of playsound() one call of play_audio_alert makes
Playbacks(path, player) == IF path # "None" /\ player THEN 1 ELSE 0

\* play_audio_alert without the try of lines 200-204
PlayEscapes_NoTry(outcome) == IF outcome = "play_error" THEN "Exception" ELSE "none"

\* lines 198-208: the exception that leaves play_audio_alert; the clause of line
\* 203 catches what playsound() raises, the other branches only print
PlayEscapes(outcome) == "none"

\* the clause of line 298 ending the loop like the two before it
Handler_AlwaysBreaks(e) == "closing"

\* lines 292-300: where each except clause of the loop leads
Handler(e) ==
    CASE e = "SerialException" -> "closing"
      [] e = "KeyboardInterrupt" -> "closing"
      [] e = "Exception" -> "pause"

\* ------------------------------------------------------------------ state
VARIABLES
    pc,            \* position of the script
    playsound,     \* TRUE iff the import of playsound3 succeeded (lines 34-40)
    eleven_client, \* TRUE iff ElevenLabs(...) was built (lines 145-150)
    serialOpen,    \* serialInst is open
    inbuf,         \* the input buffer of the port, which in_waiting (line 258)
                   \* measures: one entry per line received and not read yet,
                   \* "inflight" if it came during a pipeline run, else "idle"
    \* the locals of an iteration; each is assigned before it is read (lines
    \* 259-285), so what an iteration leaves in them is dropped at its end
    packet,        \* the bytes returned by readline(); line 260 is their only
                   \* use, they are dropped once it has run
    image_file,    \* "None" or "snapshot.jpg"
    is_human,
    audio_path,    \* "None" or "warning_audio.mp3"
    snapshot,      \* snapshot.jpg: "absent", "stale" (written before this
                   \* iteration) or "fresh" (written in this iteration)
    audio,         \* warning_audio.mp3: "absent", "stale" (left before this
                   \* iteration), "partial" (truncated in this iteration, the
                   \* stream failed) or "fresh" (written whole in this iteration)
    files,         \* the paths this execution has written
    streamOpen,    \* the cv2.VideoCapture of the last capture holds its stream
    exc,           \* exception propagating to the loop's except clauses
    startupFault,  \* what failed at startup: "none", "serial" or "gemini"
    exitCause,     \* what ended the process: "startup" or the exception
    everRead,      \* readline() has been called in this execution
    stagesEver,    \* some pipeline stage has been called in this execution
    cycle          \* what has happened in the current iteration of the loop

vars == <<pc, playsound, eleven_client, serialOpen, inbuf, packet, image_file, is_human,
          audio_path, snapshot, audio, files, streamOpen, exc, startupFault, exitCause,
          everRead, stagesEver, cycle>>

NoCycle ==
    [parse |-> "none", lateLine |-> FALSE, sentTrigger |-> FALSE, triggered |-> FALSE, capture |-> "none", classify |-> "none",
     saidYes |-> FALSE, synth |-> "none", synthCalls |-> 0, synthRequests |-> 0,
     play |-> "none", playCalls |-> 0, playbacks |-> 0, errLogged |-> FALSE]

TryBody == {"poll", "readline", "parse", "capture", "analyze", "synth", "play"}
InLoop == TryBody \cup {"except", "pause", "sleep"}
Pipeline == {"capture", "analyze", "synth", "play"}

Init ==
    /\ pc = "open_serial"
    /\ playsound \in BOOLEAN
    /\ eleven_client \in BOOLEAN
    /\ serialOpen = FALSE
    /\ inbuf = <<>>
    /\ packet = <<>>
    /\ image_file = "None"
    /\ is_human = FALSE
    /\ audio_path = "None"
    /\ snapshot \in {"absent", "stale"}
    /\ audio \in {"absent", "stale"}
    /\ files = {}
    /\ streamOpen = FALSE
    /\ exc = "none"
    /\ startupFault = "none"
    /\ exitCause = "none"
    /\ everRead = FALSE
    /\ stagesEver = FALSE
    /\ cycle = NoCycle

\* ---------------------------------------------------------------- startup
\* lines 223-233: serialInst.open()
OpenSerial ==
    /\ pc = "open_serial"
    /\ inbuf' = inbuf
    /\ \E opened \in BOOLEAN :
        /\ serialOpen' = opened
        /\ startupFault' = IF opened THEN "none" ELSE "serial"
        /\ pc' = AfterOpenSerial(opened)
        /\ exitCause' = IF AfterOpenSerial(opened) = "exited" THEN "startup" ELSE exitCause
    /\ UNCHANGED <<playsound, eleven_client, packet, image_file, is_human, audio_path,
                   snapshot, exc, everRead, stagesEver, cycle,
                   audio, files, streamOpen>>

\* lines 236-247: os.getenv('GEMINI_API_KEY') and genai.Client(...)
InitGemini ==
    /\ pc = "init_gemini"
    /\ inbuf' = inbuf
    /\ \E keyPresent \in BOOLEAN, clientBuilt \in BOOLEAN :
        /\ startupFault' = IF keyPresent /\ clientBuilt THEN startupFault ELSE "gemini"
        /\ pc' = AfterInitGemini(keyPresent, clientBuilt)
        /\ exitCause' = IF AfterInitGemini(keyPresent, clientBuilt) = "exited"
                        THEN "startup" ELSE exitCause
    /\ UNCHANGED <<playsound, eleven_client, serialOpen, packet, image_file, is_human,
                   audio_path, snapshot, exc, everRead, stagesEver, cycle,
                   audio, files, streamOpen>>

\* ------------------------------------------------------------------- loop
\* line 258: serialInst.in_waiting
CheckInWaiting ==
    /\ pc = "poll"
    /\ inbuf' = inbuf
    /\ \E r \in {"empty", "data", "SerialException", "Exception"} :
        /\ r = "empty" => inbuf = <<>>
        /\ r = "data" => inbuf # <<>>
        /\ pc' = CASE r = "empty" -> "sleep" [] r = "data" -> "readline" [] OTHER -> "except"
        /\ exc' = IF r \in {"SerialException", "Exception"} THEN r ELSE exc
    /\ UNCHANGED <<playsound, eleven_client, serialOpen, packet, image_file, is_human,
                   audio_path, snapshot, startupFault, exitCause, everRead,
                   stagesEver, cycle,
                   audio, files, streamOpen>>

\* line 259: serialInst.readline()
ReadLine ==
    /\ pc = "readline"
    /\ \/ /\ inbuf' = Tail(inbuf)
          /\ \E p \in Packets :
            /\ packet' = p
            /\ everRead' = TRUE
            /\ cycle' = [cycle EXCEPT !.parse = "read",
                                      !.lateLine = (Head(inbuf) = "inflight"),
                                      !.sentTrigger = LineIsTrigger(p)]
            /\ pc' = "parse"
            /\ exc' = exc
       \/ /\ inbuf' = inbuf
          /\ pc' = "except"
          /\ exc' = "SerialException"
          /\ UNCHANGED <<packet, everRead, cycle>>
    /\ UNCHANGED <<playsound, eleven_client, serialOpen, image_file, is_human, audio_path,
                   snapshot, startupFault, exitCause, stagesEver,
                   audio, files, streamOpen>>

\* lines 260-268: decode, strip, look for the marker, compare the value
Parse ==
    /\ pc = "parse"
    /\ inbuf' = inbuf
    /\ \/ \* line 260: packet.decode('utf-8') raises UnicodeDecodeError
          /\ DecodeFails(packet)
          /\ cycle' = [cycle EXCEPT !.parse = "decode_error"]
          /\ pc' = "except"
          /\ exc' = "Exception"
       \/ /\ ~DecodeFails(packet)
          /\ \E serial_value \in {Strip(Decode(packet))} :
             \E triggered \in {IsTrigger(serial_value)} :
                /\ cycle' = [cycle EXCEPT !.parse = "ok", !.triggered = triggered]
                /\ pc' = IF triggered THEN "capture" ELSE "sleep"
          /\ exc' = exc
    /\ packet' = <<>>
    /\ UNCHANGED <<playsound, eleven_client, serialOpen, image_file, is_human,
                   audio_path, snapshot, startupFault, exitCause, everRead, stagesEver,
                   audio, files, streamOpen>>

\* lines 271-273 and 65-93: capture_image_from_ipcam(IP_CAM_URL), then if image_file
CaptureImage ==
    /\ pc = "capture"
    /\ inbuf' = inbuf
    /\ stagesEver' = TRUE
    /\ \/ \E opened \in BOOLEAN, ret \in BOOLEAN, written \in BOOLEAN :
            /\ ~opened => ~ret
            /\ ~ret => ~written
            /\ image_file' = CaptureResult(opened, ret)
            \* line 91: cv2.imwrite, whose result the code does not look at
            /\ snapshot' = IF written THEN "fresh" ELSE snapshot
            /\ files' = IF written THEN files \cup {ImagePath} ELSE files
            /\ streamOpen' = (opened /\ ~Released(opened, ret))
            /\ cycle' = [cycle EXCEPT !.capture =
                            IF ~opened THEN "unopened"
                            ELSE IF ~ret THEN "noframe"
                            ELSE IF written THEN "saved" ELSE "unsaved"]
            /\ pc' = AfterCapture(CaptureResult(opened, ret))
            /\ exc' = exc
       \/ \* cv2.imwrite raises cv2.error (line 91, after the release of line 84);
          \* cap.read() reports a failure through ret and does not raise
          /\ cycle' = [cycle EXCEPT !.capture = "raised"]
          /\ pc' = "except"
          /\ exc' = "Exception"
          /\ streamOpen' = ~Released(TRUE, TRUE)
          /\ UNCHANGED <<image_file, snapshot, files>>
    /\ UNCHANGED <<playsound, eleven_client, serialOpen, packet, is_human, audio_path,
                   startupFault, exitCause, everRead,
                   audio>>

\* lines 275-278 and 99-138: analyze_with_gemini(image_file, gemini_client), then if is_human
AnalyzeWithGemini ==
    /\ pc = "analyze"
    /\ inbuf' = inbuf
    /\ stagesEver' = TRUE
    /\ \E outcome \in {"not_found", "load_error", "remote_error", "no_text", "text"},
          text \in Responses :
        \* line 110: os.path.exists(image_path)
        /\ outcome = "not_found" <=> snapshot = "absent"
        /\ outcome # "text" => text = <<>>
        /\ is_human' = AnalyzeResult(outcome, text)
        /\ cycle' = [cycle EXCEPT !.classify = outcome,
                                  !.saidYes = (Upper(Strip(text)) = <<"Y","E","S">>)]
        /\ pc' = AfterAnalyze(AnalyzeResult(outcome, text))
    /\ UNCHANGED <<playsound, eleven_client, serialOpen, packet, image_file, audio_path,
                   snapshot, exc, startupFault, exitCause, everRead,
                   audio, files, streamOpen>>

\* lines 283-284 and 152-189: generate_warning_audio(text, "warning_audio.mp3")
GenerateWarningAudio ==
    /\ pc = "synth"
    /\ inbuf' = inbuf
    /\ stagesEver' = TRUE
    /\ \E outcome \in {"no_client", "request_error", "open_error", "stream_error", "ok"} :
        /\ outcome = "no_client" <=> ~eleven_client
        /\ audio_path' = SynthResult(eleven_client, outcome)
        /\ audio' = AudioAfterSynth(eleven_client, outcome, audio)
        /\ files' = IF OpensAudioFile(eleven_client, outcome)
                    THEN files \cup {AudioFile} ELSE files
        /\ cycle' = [cycle EXCEPT !.synth = outcome,
                                  !.synthCalls = @ + 1,
                                  !.synthRequests = @ + SynthRequests(eleven_client)]
    /\ pc' = "play"
    /\ UNCHANGED <<playsound, eleven_client, serialOpen, packet, image_file, is_human,
                   snapshot, exc, startupFault, exitCause, everRead,
                   streamOpen>>

\* lines 285-286 and 191-208: play_audio_alert(audio_path)
PlayAudioAlert ==
    /\ pc = "play"
    /\ inbuf' = inbuf
    /\ \E outcome \in {"played", "play_error", "no_player", "no_path"} :
        /\ outcome \in {"played", "play_error"} <=> Playbacks(audio_path, playsound) = 1
        /\ outcome = "no_player" => ~playsound
        /\ outcome = "no_path" => playsound
        /\ cycle' = [cycle EXCEPT !.play = outcome,
                                  !.playCalls = @ + 1,
                                  !.playbacks = @ + Playbacks(audio_path, playsound)]
        /\ pc' = IF PlayEscapes(outcome) = "none" THEN "sleep" ELSE "except"
        /\ exc' = IF PlayEscapes(outcome) = "none" THEN exc ELSE PlayEscapes(outcome)
    /\ stagesEver' = TRUE
    /\ UNCHANGED <<playsound, eleven_client, serialOpen, packet, image_file, is_human,
                   audio_path, snapshot, startupFault, exitCause, everRead,
                   audio, files, streamOpen>>

\* lines 292-299: the except clause that matches runs
HandleException ==
    /\ pc = "except"
    /\ inbuf' = inbuf
    /\ pc' = Handler(exc)
    /\ exitCause' = IF Handler(exc) = "closing" THEN exc ELSE exitCause
    \* line 299: print("An unexpected error occurred in the main loop: ...")
    /\ cycle' = [cycle EXCEPT !.errLogged = (exc = "Exception")]
    /\ exc' = "none"
    /\ UNCHANGED <<playsound, eleven_client, serialOpen, packet, image_file, is_human,
                   audio_path, snapshot, startupFault, everRead, stagesEver,
                   audio, files, streamOpen>>

\* line 300: time.sleep(1)
Pause ==
    /\ pc = "pause"
    /\ inbuf' = inbuf
    /\ pc' = "sleep"
    /\ UNCHANGED <<playsound, eleven_client, serialOpen, packet, image_file, is_human,
                   audio_path, snapshot, exc, startupFault, exitCause, everRead,
                   stagesEver, cycle,
                   audio, files, streamOpen>>

\* line 303: time.sleep(0.01), then the next iteration
Sleep ==
    /\ pc = "sleep"
    /\ inbuf' = inbuf
    /\ pc' = "poll"
    /\ packet' = <<>>
    /\ image_file' = "None"
    /\ is_human' = FALSE
    /\ audio_path' = "None"
    /\ snapshot' = IF snapshot = "fresh" THEN "stale" ELSE snapshot
    /\ audio' = IF audio \in {"fresh", "partial"} THEN "stale" ELSE audio
    /\ cycle' = NoCycle
    /\ UNCHANGED <<playsound, eleven_client, serialOpen, exc, startupFault, exitCause,
                   everRead, stagesEver,
                   files, streamOpen>>

\* Ctrl-C while the try body runs: KeyboardInterrupt reaches the clause of line 295
InterruptInTry ==
    /\ pc \in TryBody
    /\ pc' = "except"
    /\ exc' = "KeyboardInterrupt"
    \* line 260 is not reached any more
    /\ packet' = <<>>
    /\ UNCHANGED <<inbuf, playsound, eleven_client, serialOpen, image_file, is_human,
                   audio_path, snapshot, startupFault, exitCause, everRead,
                   stagesEver, cycle,
                   audio, files, streamOpen>>

\* Ctrl-C in an except clause (lines 293-300) or in the sleep of line 303: no
\* clause encloses these, the KeyboardInterrupt ends the process
InterruptOutsideTry ==
    /\ pc \in {"except", "pause", "sleep"}
    /\ pc' = "exited"
    /\ exc' = "KeyboardInterrupt"
    /\ exitCause' = "UncaughtKeyboardInterrupt"
    \* the process is gone, and what its port had buffered with it
    /\ inbuf' = <<>>
    /\ UNCHANGED <<playsound, eleven_client, serialOpen, packet, image_file, is_human,
                   audio_path, snapshot, startupFault, everRead, stagesEver, cycle,
                   audio, files, streamOpen>>

\* lines 305-307: serialInst.close() after the loop
CloseSerial ==
    /\ pc = "closing"
    /\ serialOpen' = FALSE
    /\ inbuf' = <<>>
    /\ pc' = "exited"
    /\ UNCHANGED <<playsound, eleven_client, packet, image_file, is_human, audio_path,
                   snapshot, exc, startupFault, exitCause, everRead, stagesEver, cycle,
                   audio, files, streamOpen>>

\* the sensor sends a line: the driver appends it to the input buffer of the
\* open port, whatever statement the script is executing; nothing in the
\* script empties that buffer but readline() (line 259)
Arrive ==
    /\ pc \in InLoop
    /\ serialOpen
    /\ Len(inbuf) < MaxWaiting
    /\ inbuf' = Append(inbuf, IF pc \in Pipeline THEN "inflight" ELSE "idle")
    /\ UNCHANGED <<pc, playsound, eleven_client, serialOpen, packet, image_file, is_human,
                   audio_path, snapshot, audio, files, streamOpen, exc, startupFault,
                   exitCause, everRead, stagesEver, cycle>>

Step ==
    \/ OpenSerial \/ InitGemini
    \/ CheckInWaiting \/ ReadLine \/ Parse
    \/ CaptureImage \/ AnalyzeWithGemini \/ GenerateWarningAudio \/ PlayAudioAlert
    \/ HandleException \/ Pause \/ Sleep
    \/ CloseSerial

Interrupt == InterruptInTry \/ InterruptOutsideTry

Next == Step \/ Interrupt \/ Arrive

Spec == Init /\ [][Next]_vars

\* the script keeps running: some statement is always executed next
FairSpec == Init /\ [][Next]_vars /\ WF_vars(Step)

\* ---------------------------------------------------------------- claims
\* the classifier raised in this iteration: loading the image, the remote call,
\* or reading the text of a response that has none
ClassifierRaised == cycle.classify \in {"load_error", "remote_error", "no_text"}

\* the response of this iteration, trimmed and uppercased, is exactly "YES"
YesCycle == cycle.classify = "text" /\ cycle.saidYes

\* neither the synthesizer nor the player has been called in this iteration
NoAlertStage ==
    /\ cycle.synthCalls = 0 /\ cycle.synthRequests = 0
    /\ cycle.playCalls = 0 /\ cycle.playbacks = 0
    /\ pc \notin {"synth", "play"}

\* C1: in an iteration where loading the image or the remote vision call raises,
\* analyze_with_gemini returns False and neither the synthesizer nor the player
\* is called.
C1_ErrorIsNoHuman == ClassifierRaised => (is_human = FALSE /\ NoAlertStage)

C1_Witness == cycle.classify = "remote_error" /\ pc = "sleep"

\* C2: the synthesizer and the player are called in an iteration only if the
\* classifier's response of that iteration, trimmed and uppercased, is exactly
\* "YES".
C2_AlertOnlyOnYes == ~NoAlertStage => YesCycle

C2_Witness == cycle.playbacks = 1 /\ cycle.saidYes /\ audio = "fresh"

\* C3: in an iteration where the stream cannot be opened or no frame can be
\* read, capture_image_from_ipcam returns None and the classifier, the
\* synthesizer and the player are not called.
C3_CaptureFailureStops ==
    cycle.capture \in {"unopened", "noframe"} =>
        /\ image_file = "None"
        /\ cycle.classify = "none" /\ pc # "analyze"
        /\ NoAlertStage

C3_Witness == cycle.capture = "noframe" /\ pc = "sleep"

\* C4 as claimed: an iteration with a "YES" classification makes exactly one
\* synthesis request, and playsound() runs exactly once if the synthesizer
\* returned a path and not at all if it returned None.
C4_Original ==
    (YesCycle /\ pc = "sleep") =>
        /\ cycle.synthRequests = 1
        /\ cycle.playbacks = IF audio_path # "None" THEN 1 ELSE 0

\* C4 as amended: an iteration with a "YES" classification that reaches its end
\* has called generate_warning_audio exactly once, which made one synthesis
\* request if the speech client was built at startup and none otherwise, and
\* play_audio_alert exactly once, which ran playsound() once if the synthesizer
\* returned a path and the playback library was imported, and not at all
\* otherwise.  No iteration calls either more than once.
C4_Amended ==
    /\ cycle.synthCalls <= 1 /\ cycle.playCalls <= 1
    /\ (YesCycle /\ pc = "sleep") =>
        /\ cycle.synthCalls = 1
        /\ cycle.synthRequests = IF eleven_client THEN 1 ELSE 0
        /\ cycle.playCalls = 1
        /\ cycle.playbacks = IF cycle.synth = "ok" /\ playsound THEN 1 ELSE 0
        /\ (cycle.synth = "ok") <=> (audio_path # "None")

C4_Witness == YesCycle /\ pc = "sleep" /\ cycle.playbacks = 1 /\ cycle.synthRequests = 1

\* C5: for every serial line read, the pipeline is entered if and only if the
\* line holds the marker phrase and the text after its last colon, trimmed, is
\* exactly "0".
C5_TriggerIff ==
    cycle.parse \in {"ok", "decode_error"} => (cycle.triggered <=> cycle.sentTrigger)

\* C6: whenever the process has exited, by a startup error, a lost serial
\* connection or a user interrupt, the serial connection is closed.
C6_ClosedBeforeExit == pc = "exited" => ~serialOpen

\* the user interrupted the program
Interrupted == exc = "KeyboardInterrupt" \/ exitCause \in {"KeyboardInterrupt", "UncaughtKeyboardInterrupt"}

\* C7: once a trigger has started the pipeline, whatever the stages do, the
\* loop comes back to polling the sensor (unless the user interrupts it).
C7_BackToArmed == (pc \in Pipeline) ~> (pc = "poll" \/ Interrupted)

C7_Witness == pc = "poll" /\ stagesEver /\ snapshot = "stale" /\ ~Interrupted

\* C8: the loop ends only on a SerialException or a KeyboardInterrupt; any
\* other exception of an iteration is logged, the loop pauses, and the next
\* iteration polls again (each said of the script's own next step, pc' # pc).
C8_OnlyFatalEndsLoop ==
    [][ /\ (pc \in InLoop /\ pc' \notin InLoop) =>
                exitCause' \in {"SerialException", "KeyboardInterrupt", "UncaughtKeyboardInterrupt"}
        /\ (pc = "except" /\ exc = "Exception" /\ pc' # pc /\ exc' # "KeyboardInterrupt") =>
                (pc' = "pause" /\ cycle'.errLogged)
        /\ (pc = "pause" /\ pc' # pc /\ exc' # "KeyboardInterrupt") => pc' = "sleep"
        /\ (pc = "sleep" /\ pc' # pc /\ exc' # "KeyboardInterrupt") => pc' = "poll"
      ]_vars

C8_Witness == pc = "sleep" /\ cycle.errLogged /\ cycle.capture = "raised"

\* C9: a line that does not trigger, malformed or undecodable ones included,
\* raises nothing and is not followed by the loop-level error log and pause.
C9_MalformedIgnored ==
    (cycle.parse \in {"ok", "decode_error"} /\ ~cycle.triggered) =>
        /\ exc # "Exception"
        /\ ~cycle.errLogged
        /\ pc # "pause"

\* C10: when the port cannot be opened or the vision client cannot be set up,
\* the process has exited, and no line was read and no stage called.
C10_StartupFailureExits ==
    startupFault # "none" =>
        /\ pc = "exited"
        /\ ~everRead /\ packet = <<>>
        /\ ~stagesEver /\ cycle = NoCycle

C10_Witness == startupFault = "gemini" /\ pc = "exited" /\ exitCause = "startup"

\* C11: play_audio_alert never raises: with no path, with no playback library
\* and when playsound() fails it prints and returns, the loop-level error path
\* is not taken and the iteration goes on to line 303, from where it polls
\* again.
C11_PlayerNeverRaises ==
    cycle.play # "none" =>
        /\ exc # "Exception" /\ ~cycle.errLogged
        /\ pc \in {"sleep", "exited"}
        /\ pc = "exited" => exitCause = "UncaughtKeyboardInterrupt"

C11_Witness == cycle.play = "play_error" /\ pc = "sleep"

\* C12: when the speech client was not built at startup, generate_warning_audio
\* makes no synthesis request, returns None and does not write the audio file,
\* and playsound() runs in no iteration.
C12_NoClientNoAudio ==
    ~eleven_client =>
        /\ cycle.synthRequests = 0
        /\ audio_path = "None"
        /\ AudioFile \notin files /\ audio \notin {"partial", "fresh"}
        /\ cycle.playbacks = 0

C12_Witness ==
    ~eleven_client /\ cycle.synth = "no_client" /\ cycle.playCalls = 1 /\ pc = "sleep"

\* C13: whatever triggers have been handled, the files the program has written
\* are among snapshot.jpg and warning_audio.mp3.
C13_TwoFixedPaths == files \subseteq {"snapshot.jpg", "warning_audio.mp3"}

\* an iteration after one that wrote both files has written the snapshot again
C13_Witness ==
    /\ files = {"snapshot.jpg", "warning_audio.mp3"}
    /\ cycle.capture = "saved" /\ audio = "stale"
    /\ pc = "analyze"

\* C14: once capture_image_from_ipcam has returned, the stream it opened is
\* released: when it could not be opened, when no frame could be read and
\* when the frame was read.
C14_StreamReleased == cycle.capture # "none" => ~streamOpen

C14_Witness == cycle.capture = "noframe" /\ ~streamOpen /\ pc = "sleep"

\* C15: a trigger line that arrives while a pipeline run is in flight is lost:
\* it is not kept for a later iteration and it never starts a pipeline run.
C15_LateTriggerLost ==
    (cycle.lateLine /\ cycle.sentTrigger) => (pc \notin Pipeline /\ cycle.capture = "none")

\* no stage of the pipeline has run in this iteration
NoStageYet ==
    /\ cycle.capture = "none" /\ cycle.classify = "none"
    /\ cycle.synthCalls = 0 /\ cycle.playCalls = 0

\* C16: at most one pipeline run is in flight: a line is polled, read and
\* parsed, and a capture started, only when no stage of an earlier trigger has
\* run since the last iteration ended, and the stages of a run follow one
\* another in order.
C16_OneRunInFlight ==
    /\ pc \in {"poll", "readline", "parse", "capture"} => NoStageYet
    /\ pc = "analyze" => (cycle.capture \in {"saved", "unsaved"} /\ cycle.classify = "none")
    /\ pc = "synth" => (cycle.classify = "text" /\ cycle.synthCalls = 0)
    /\ pc = "play" => (cycle.synthCalls = 1 /\ cycle.playCalls = 0)

\* a trigger that arrived during a run waits until the run is over
C16_Witness == pc = "capture" /\ cycle.lateLine /\ NoStageYet /\ stagesEver

\* C17: whenever playsound() is called, warning_audio.mp3 was written whole by
\* the synthesizer in the same iteration: neither the clip of an earlier
\* iteration nor a file cut short by a failed stream is played.
C17_PlaysFreshAudio == cycle.playbacks > 0 => (audio = "fresh" /\ cycle.synth = "ok")

C17_Witness == cycle.play = "played" /\ audio = "fresh" /\ cycle.playbacks = 1

\* C18: whenever the classifier analyses snapshot.jpg in an iteration, the file
\* holds the frame captured in that iteration, also when writing the frame
\* failed.
C18_AnalyzesFreshFrame ==
    cycle.classify \notin {"none", "not_found"} => snapshot = "fresh"

====
